---- MODULE Spec2Model ----
(***************************************************************************)
(* A model of iclouder.py, the batch downloader for public iCloud shared   *)
(* albums: token decoding, best-asset selection, the stream client with    *)
(* its retry loop and redirect recursion, and the main program's random    *)
(* selection, download loop and download-log bookkeeping.                  *)
(*                                                                         *)
(* Python strings are sequences of one-symbol TLA+ strings (tokens), so    *)
(* that indexing, slicing, split and join are computed and not assumed.    *)
(***************************************************************************)
EXTENDS Integers, Sequences, FiniteSets, TLC

VARIABLES
    \* get_partition
    url_token, tk_done, tk_result,
    \* filter_best_assets
    photos, asset_urls, fb_done, fb_result,
    \* get_stream
    stack, gs_state, gs_result,
    \* __main__
    pc, args, fixedK, file, log_entries, loaded, ignore_list, data,
    photo_guids, idx, gets, non200, written, saved, logged

tokenVars  == <<url_token, tk_done, tk_result>>
filterVars == <<photos, asset_urls, fb_done, fb_result>>
streamVars == <<stack, gs_state, gs_result>>
mainVars   == <<pc, args, fixedK, file, log_entries, loaded, ignore_list, data,
               photo_guids, idx, gets, non200, written, saved, logged>>
vars == <<tokenVars, filterVars, streamVars, mainVars>>

----------------------------------------------------------------------------
(* Bounds of the model                                                     *)

MaxTokenLen == 3     \* share tokens of 0..MaxTokenLen symbols
MaxPhotos == 2       \* photos in a webstream body handed to the selector
MaxDerivs == 2       \* derivatives per photo
RecursionLimit == 3  \* nesting depth at which a further call raises RecursionError
MaxCount == 3        \* --count values 1..MaxCount
MaxIgnore == 2       \* --ignore values 0..MaxIgnore (0: not given)
MaxLog == 3          \* lines an untruncated log may grow to

----------------------------------------------------------------------------
(* Generic helpers for Python sequence operations                          *)

Min(a, b) == IF a <= b THEN a ELSE b
Max(a, b) == IF a >= b THEN a ELSE b

\* s[i:j] on 0-based Python indices with 0 <= i, clamped to the length.
Slice(s, i, j) == SubSeq(s, i + 1, Min(j, Len(s)))

\* s[-k:] for k > 0: the last k elements, or all of s when it is shorter.
LastK(s, k) == SubSeq(s, Max(1, Len(s) - k + 1), Len(s))

Range(s) == {s[i] : i \in DOMAIN s}

\* 1-based position of the first / last occurrence of c in s, 0 when absent.
FirstIndex(s, c) ==
    IF \E i \in DOMAIN s : s[i] = c
    THEN CHOOSE i \in DOMAIN s : s[i] = c /\ \A j \in 1..(i - 1) : s[j] # c
    ELSE 0

LastIndex(s, c) ==
    IF \E i \in DOMAIN s : s[i] = c
    THEN CHOOSE i \in DOMAIN s : s[i] = c /\ \A j \in (i + 1)..Len(s) : s[j] # c
    ELSE 0

\* All sequences over S of length 0..n.
SeqsUpTo(S, n) == UNION {[1..k -> S] : k \in 0..n}

----------------------------------------------------------------------------
(* Token decoder                                                           *)

BASE_62_CHAR_SET ==
    << "0","1","2","3","4","5","6","7","8","9",
       "A","B","C","D","E","F","G","H","I","J","K","L","M",
       "N","O","P","Q","R","S","T","U","V","W","X","Y","Z",
       "a","b","c","d","e","f","g","h","i","j","k","l","m",
       "n","o","p","q","r","s","t","u","v","w","x","y","z" >>

\* BASE_62_CHAR_SET.index(c), 0-based.
CharIndex(c) == FirstIndex(BASE_62_CHAR_SET, c) - 1

RECURSIVE Base62Fold(_, _, _)
Base62Fold(part, i, t) ==
    IF i > Len(part) THEN t
    ELSE Base62Fold(part, i + 1, t * 62 + CharIndex(part[i]))

base62_to_int(part) == Base62Fold(part, 1, 0)

\* The outcome of get_partition: a partition, or the IndexError raised by
\* url_token[0] / url_token[1] on a token that has no such symbol.
get_partition(tok) ==
    IF Len(tok) < 1 THEN [kind |-> "IndexError", value |-> 0]
    ELSE IF tok[1] = "A"
         THEN IF Len(tok) < 2 THEN [kind |-> "IndexError", value |-> 0]
              ELSE [kind |-> "ok", value |-> base62_to_int(<<tok[2]>>)]
         ELSE [kind |-> "ok", value |-> base62_to_int(Slice(tok, 1, 3))]

\* Symbols the checked tokens are written in: both ends of each run of the
\* alphabet, and the scheme selector A.
TokenChars == {"0", "9", "A", "B", "Z", "a", "z"}

Tokens == SeqsUpTo(TokenChars, MaxTokenLen)

----------------------------------------------------------------------------
(* Asset selector                                                          *)

DIGITS == << "0","1","2","3","4","5","6","7","8","9" >>

RECURSIVE IntFold(_, _, _)
IntFold(str, i, t) ==
    IF i > Len(str) THEN t
    ELSE IntFold(str, i + 1, t * 10 + (FirstIndex(DIGITS, str[i]) - 1))

\* int(s) for a string of decimal digits.
int(str) == IntFold(str, 1, 0)

\* dim = int(width) * int(height)
Dim(derivative) == int(derivative.width) * int(derivative.height)

\* best_derivative = None
NoDerivative == [width |-> <<>>, height |-> <<>>, checksum |-> <<>>]

\* The inner loop of filter_best_assets over one photo's derivatives, in
\* dict order: the running (maxdim, best_derivative) pair.
RECURSIVE BestLoop(_, _, _, _)
BestLoop(derivs, i, maxdim, best) ==
    IF i > Len(derivs) THEN best
    ELSE IF Dim(derivs[i]) > maxdim
         THEN BestLoop(derivs, i + 1, Dim(derivs[i]), derivs[i])
         ELSE BestLoop(derivs, i + 1, maxdim, best)

best_derivative(photo) == BestLoop(photo.derivatives, 1, 0, NoDerivative)

\* The outer loop: the checksums appended to best_checksums, in photo order.
RECURSIVE BestChecksums(_, _)
BestChecksums(ps, i) ==
    IF i > Len(ps) THEN <<>>
    ELSE IF best_derivative(ps[i]) # NoDerivative
         THEN <<best_derivative(ps[i]).checksum>> \o BestChecksums(ps, i + 1)
         ELSE BestChecksums(ps, i + 1)

\* The result dict: checksum -> asset_urls[checksum] for the best checksums
\* the map knows.
filter_best_assets(ps, urls) ==
    [c \in Range(BestChecksums(ps, 1)) \cap DOMAIN urls |-> urls[c]]

\* Inputs of the selector.
Checksums == {<<"a">>, <<"b">>}
DimPairs == { <<<<"0">>, <<"1">>>>, <<<<"1">>, <<"2">>>>, <<<<"2">>, <<"1">>>> }
Derivatives ==
    {[width |-> d[1], height |-> d[2], checksum |-> c] : d \in DimPairs, c \in Checksums}

\* A photo list: the i-th photo has GUID "P<i>" and a dict of derivatives.
PhotoList(dss) ==
    [i \in DOMAIN dss |-> [photoGuid |-> <<"P", DIGITS[i + 1]>>, derivatives |-> dss[i]]]
PhotoLists == {PhotoList(dss) : dss \in SeqsUpTo(SeqsUpTo(Derivatives, MaxDerivs), MaxPhotos)}

\* The webasseturls item of a checksum: host and path+query of its asset.
AssetItem(c) ==
    [url_location |-> <<"cvws.icloud-content.com">>,
     url_path |-> <<"/", "S", "/">> \o c \o <<".", "JPG", "?", "o", "=", "k">>]

AssetMapOf(S) == [c \in S |-> AssetItem(c)]
AssetMaps == {AssetMapOf(S) : S \in SUBSET Checksums}

----------------------------------------------------------------------------
(* Stream client                                                           *)

DefaultRetries == 3

\* while attempt < retries
LoopContinues(attempt, retries) == attempt < retries

\* A variant that gives up on the first failure.
ShouldRaiseFirst(attempt, retries) == attempt >= 1

\* if attempt == retries: raise e
ShouldRaise(attempt, retries) == attempt = retries

\* A get_stream invocation: its host, its retries parameter, its attempt
\* counter, the webstream requests it has posted, and whether it is in its
\* loop or is raising exc to its caller.
Frame(h) == [host |-> h, retries |-> DefaultRetries, attempt |-> 0, reqs |-> 0,
             st |-> "loop", exc |-> "none"]

Top(stk) == stk[Len(stk)]
Pop(stk) == SubSeq(stk, 1, Len(stk) - 1)
SetTop(stk, f) == [stk EXCEPT ![Len(stk)] = f]

Pending == [kind |-> "pending", value |-> <<>>, reqs |-> 0]

\* The top frame has posted one more webstream request.
Posted(stk) == SetTop(stk, [Top(stk) EXCEPT !.reqs = @ + 1])

\* The except clause of the top frame of stk, entered with exception exc:
\* the next (stack, state, result).
OnException(stk, exc) ==
    LET top == Top(stk)
        a == top.attempt + 1
    IN  IF ShouldRaise(a, top.retries)
        THEN [stack |-> SetTop(stk, [top EXCEPT !.attempt = a, !.st = "raising", !.exc = exc]),
              state |-> "running", result |-> Pending]
        ELSE IF LoopContinues(a, top.retries)
        THEN [stack |-> SetTop(stk, [top EXCEPT !.attempt = a]),
              state |-> "running", result |-> Pending]
        \* the while loop ends and the function returns None, which every
        \* caller on the stack returns in turn
        ELSE [stack |-> <<>>, state |-> "returned",
              result |-> [kind |-> "None", value |-> <<>>, reqs |-> stk[1].reqs]]

\* Hosts a 330 body can name in X-Apple-MMe-Host.
Hosts == {"p01-sharedstreams.icloud.com", "p02-sharedstreams.icloud.com"}

\* Bodies a 200 webstream response can carry.
StreamBodies ==
    { PhotoList(<<>>),
      PhotoList(<< <<[width |-> <<"1">>, height |-> <<"2">>, checksum |-> <<"a">>]>> >>),
      PhotoList(<< <<[width |-> <<"1">>, height |-> <<"2">>, checksum |-> <<"a">>],
                     [width |-> <<"2">>, height |-> <<"1">>, checksum |-> <<"b">>]>>,
                   <<[width |-> <<"0">>, height |-> <<"1">>, checksum |-> <<"a">>],
                     [width |-> <<"2">>, height |-> <<"1">>, checksum |-> <<"b">>]>> >>) }

Running == gs_state = "running" /\ stack # <<>> /\ Top(stack).st = "loop"
               /\ LoopContinues(Top(stack).attempt, Top(stack).retries)

Apply(r) == /\ stack' = r.stack
            /\ gs_state' = r.state
            /\ gs_result' = r.result

\* requests.post raises, json.loads raises, or the status is neither 200 nor
\* 330 (ValueError).
StreamFail ==
    /\ Running
    /\ \E exc \in {"ValueError", "OtherError"} : Apply(OnException(Posted(stack), exc))
    /\ UNCHANGED <<tokenVars, filterVars, mainVars>>

\* Status 330: return get_stream(new_host, token).  A call nested deeper
\* than the interpreter allows raises RecursionError inside the try.
StreamRedirect ==
    /\ Running
    /\ \E h \in Hosts :
          IF Len(stack) < RecursionLimit
          THEN /\ stack' = Append(Posted(stack), Frame(h))
               /\ UNCHANGED <<gs_state, gs_result>>
          ELSE Apply(OnException(Posted(stack), "OtherError"))
    /\ UNCHANGED <<tokenVars, filterVars, mainVars>>

\* Status 200: get_asset_urls, then return filter_best_assets(...), which
\* every caller on the stack returns in turn.
StreamOk ==
    /\ Running
    /\ \E body \in StreamBodies, items \in AssetMaps :
          /\ stack' = <<>>
          /\ gs_state' = "returned"
          /\ gs_result' = [kind |-> "data", value |-> filter_best_assets(body, items),
                           reqs |-> Posted(stack)[1].reqs]
    /\ UNCHANGED <<tokenVars, filterVars, mainVars>>

\* Status 200, but get_asset_urls raises (non-200 on webasseturls).
StreamAssetFail ==
    /\ Running
    /\ Apply(OnException(Posted(stack), "ValueError"))
    /\ UNCHANGED <<tokenVars, filterVars, mainVars>>

\* raise e leaves the top frame: the exception reaches the caller's except
\* clause, or the caller of the outermost get_stream.
StreamRaise ==
    /\ gs_state = "running" /\ stack # <<>> /\ Top(stack).st = "raising"
    /\ IF Len(stack) = 1
       THEN /\ stack' = <<>>
            /\ gs_state' = "raised"
            /\ gs_result' = [kind |-> Top(stack).exc, value |-> <<>>, reqs |-> stack[1].reqs]
       ELSE Apply(OnException(Pop(stack), Top(stack).exc))
    /\ UNCHANGED <<tokenVars, filterVars, mainVars>>

----------------------------------------------------------------------------
(* Actions of the pure functions                                           *)

Decode ==
    /\ ~tk_done
    /\ tk_done' = TRUE
    /\ tk_result' = get_partition(url_token)
    /\ UNCHANGED <<url_token, filterVars, streamVars, mainVars>>

Filter ==
    /\ ~fb_done
    /\ fb_done' = TRUE
    /\ fb_result' = filter_best_assets(photos, asset_urls)
    /\ UNCHANGED <<photos, asset_urls, tokenVars, streamVars, mainVars>>

----------------------------------------------------------------------------
(* Main program: strings and files                                         *)

\* '\n'.join(entries)
RECURSIVE JoinLines(_)
JoinLines(entries) ==
    IF Len(entries) = 0 THEN <<>>
    ELSE IF Len(entries) = 1 THEN entries[1]
    ELSE entries[1] \o <<"\n">> \o JoinLines(Tail(entries))

\* content.splitlines()
RECURSIVE SplitLines(_)
SplitLines(content) ==
    IF content = <<>> THEN <<>>
    ELSE LET i == FirstIndex(content, "\n")
         IN  IF i = 0 THEN <<content>>
             ELSE <<SubSeq(content, 1, i - 1)>>
                      \o SplitLines(SubSeq(content, i + 1, Len(content)))

\* entry.split(':')[0]
SplitColon0(entry) ==
    IF FirstIndex(entry, ":") = 0 THEN entry
    ELSE SubSeq(entry, 1, FirstIndex(entry, ":") - 1)

\* f"https://{url_location}{url_path}"
get_download_url(item) == <<"https", ":", "/", "/">> \o item.url_location \o item.url_path

\* url[url.rindex('/') + 1 : url.index('?')], or the ValueError of rindex/index.
get_source_filename(url) ==
    IF LastIndex(url, "/") = 0 \/ FirstIndex(url, "?") = 0
    THEN [kind |-> "ValueError", value |-> <<>>]
    ELSE [kind |-> "ok",
          value |-> SubSeq(url, LastIndex(url, "/") + 1, FirstIndex(url, "?") - 1)]

\* os.path.splitext(name): the root, and the extension from the last dot on.
SplitExt(name) ==
    IF LastIndex(name, ".") <= 1 THEN <<name, <<>>>>
    ELSE <<SubSeq(name, 1, LastIndex(name, ".") - 1),
           SubSeq(name, LastIndex(name, "."), Len(name))>>

\* The filename argument the loop passes to download_file for photo number i.
LoopFilename(a, i) ==
    IF a.single THEN a.filename
    ELSE IF a.filename # <<>>
         THEN SplitExt(a.filename)[1] \o <<"_", DIGITS[i + 1]>> \o SplitExt(a.filename)[2]
         ELSE <<>>

\* download_file for a response status: the file written, or the exception
\* raised.  On a non-200 status no branch assigns output_file, and the final
\* `return output_file` raises UnboundLocalError.
download_file(url, status, filename) ==
    IF status # 200
    THEN [kind |-> "UnboundLocalError", output_file |-> <<>>]
    ELSE IF filename # <<>>
    THEN [kind |-> "ok", output_file |-> filename]
    ELSE IF FirstIndex(url, "?") = 0
            \/ LastIndex(SubSeq(url, 1, FirstIndex(url, "?") - 1), "/") = 0
    THEN [kind |-> "ValueError", output_file |-> <<>>]
    ELSE [kind |-> "ok",
          output_file |->
              SubSeq(url, LastIndex(SubSeq(url, 1, FirstIndex(url, "?") - 1), "/") + 1,
                     FirstIndex(url, "?") - 1)]

----------------------------------------------------------------------------
(* Main program: selection and log bookkeeping                             *)

\* A variant that slices log_entries[:-ignore], the entries before the window.
IgnoreListHead(entries, ignore) ==
    IF ignore # 0
    THEN [i \in 1..Max(0, Len(entries) - ignore) |-> SplitColon0(entries[i])]
    ELSE <<>>

\* [entry.split(':')[0] for entry in log_entries[-ignore:]] when --ignore is
\* given and not 0, else [].
IgnoreList(entries, ignore) ==
    IF ignore # 0
    THEN [i \in DOMAIN LastK(entries, ignore) |-> SplitColon0(LastK(entries, ignore)[i])]
    ELSE <<>>

\* A variant that forgets the filter.
available_all(d, il) == DOMAIN d

\* [guid for guid in data.keys() if guid not in ignore_list]
available_photos(d, il) == {guid \in DOMAIN d : guid \notin Range(il)}

\* random.sample(population, k): the k-element samples without replacement.
Samples(population, k) ==
    {s \in [1..k -> population] : \A i, j \in 1..k : i # j => s[i] # s[j]}

\* A variant that samples what there is instead of raising.
select_clamped(d, il, count) ==
    [kind |-> "ok",
     samples |-> Samples(available_photos(d, il),
                         Min(count, Cardinality(available_photos(d, il))))]

select_random_photos(d, il, count) ==
    IF Cardinality(available_photos(d, il)) < count
    THEN [kind |-> "ValueError", samples |-> {}]
    ELSE [kind |-> "ok", samples |-> Samples(available_photos(d, il), count)]

\* log_entries.append(entry) and the pop(0) that follows it.
AppendEntry(entries, entry, a) ==
    LET appended == Append(entries, entry)
    IN  IF a.ignore # 0 /\ Len(appended) > a.ignore THEN Tail(appended)
        ELSE IF a.log_downloads # 0 /\ Len(appended) > a.log_downloads THEN Tail(appended)
        ELSE appended

\* Keys of the dict get_stream can return.
StreamKeys == {<<"a">>, <<"b">>, <<"c">>}

DefaultCount == 1
DefaultFilename == <<"random_photo", ".", "jpg">>

\* Parsed command lines.  count_given tells --count N from the default.
ArgSets ==
    {[single |-> s, count_given |-> g, count |-> c, filename |-> f,
      ignore |-> k, log_downloads |-> l] :
        s \in BOOLEAN, g \in BOOLEAN, c \in 1..MaxCount, f \in {DefaultFilename, <<>>},
        k \in 0..MaxIgnore, l \in {0, 1}}

Args == {a \in ArgSets : (~a.count_given => a.count = DefaultCount)
                          /\ (fixedK # 0 => a.ignore = fixedK)}

NoArgs == [single |-> FALSE, count_given |-> FALSE, count |-> DefaultCount,
           filename |-> DefaultFilename, ignore |-> 0, log_downloads |-> 0]

\* The per-run state before a run.
Fresh ==
    /\ log_entries' = <<>>
    /\ loaded' = <<>>
    /\ ignore_list' = <<>>
    /\ data' = <<>>
    /\ photo_guids' = <<>>
    /\ idx' = 0
    /\ gets' = 0
    /\ non200' = 0
    /\ written' = {}
    /\ saved' = FALSE
    /\ logged' = "none"

Idle == pc = "idle"

\* A run can start when its log cannot outgrow the model: it truncates, or
\* the appended lines fit.
Fits(a) == a.ignore # 0 \/ a.log_downloads # 0 \/ Len(SplitLines(file)) + a.count <= MaxLog

\* sys.exit() before the log is touched: get_stream raises ValueError, or
\* the destination exists and is not a directory.
MainStreamError ==
    /\ Idle
    /\ \E a \in Args : args' = a
    /\ Fresh
    /\ pc' = "exited"
    /\ UNCHANGED <<fixedK, file, tokenVars, filterVars, streamVars>>

\* get_stream raises another exception, which nothing catches.
MainStreamCrash ==
    /\ Idle
    /\ \E a \in Args : args' = a
    /\ Fresh
    /\ pc' = "crashed"
    /\ UNCHANGED <<fixedK, file, tokenVars, filterVars, streamVars>>

\* get_stream returns; the log file is read and the ignore list extracted.
MainLoad ==
    /\ Idle
    /\ \E a \in Args, S \in SUBSET StreamKeys :
          /\ Fits(a)
          /\ args' = a
          /\ data' = AssetMapOf(S)
          /\ log_entries' = SplitLines(file)
          /\ loaded' = SplitLines(file)
          /\ ignore_list' = IgnoreList(SplitLines(file), a.ignore)
    /\ photo_guids' = <<>>
    /\ idx' = 0
    /\ gets' = 0
    /\ non200' = 0
    /\ written' = {}
    /\ saved' = FALSE
    /\ logged' = "none"
    /\ pc' = "select"
    /\ UNCHANGED <<fixedK, file, tokenVars, filterVars, streamVars>>

\* if data: photo_guids = select_random_photos(...), else the error.
MainSelect ==
    /\ pc = "select"
    /\ IF DOMAIN data = {}
       THEN /\ logged' = "No photos available to download."
            /\ pc' = "save"
            /\ UNCHANGED <<photo_guids, idx>>
       ELSE LET r == select_random_photos(data, ignore_list, args.count)
            IN  IF r.kind = "ValueError"
                THEN /\ logged' = "Not enough new photos available to download."
                     /\ pc' = "save"
                     /\ UNCHANGED <<photo_guids, idx>>
                ELSE /\ \E s \in r.samples : photo_guids' = s
                     /\ idx' = 1
                     /\ pc' = IF args.count = 0 THEN "save" ELSE "loop"
                     /\ UNCHANGED logged
    /\ UNCHANGED <<args, fixedK, file, log_entries, loaded, ignore_list, data,
                   gets, non200, written, saved, tokenVars, filterVars, streamVars>>

\* One iteration of the download loop, for an asset GET answering status.
MainDownload ==
    /\ pc = "loop"
    /\ \E status \in {200, 404} :
          LET photo_guid == photo_guids[idx]
              url == get_download_url(data[photo_guid])
              source_filename == get_source_filename(url)
              out == download_file(url, status, LoopFilename(args, idx))
              last == idx = Len(photo_guids)
          IN  IF source_filename.kind = "ValueError"
              THEN /\ logged' = "ValueError"
                   /\ pc' = "save"
                   /\ UNCHANGED <<gets, non200, written, log_entries, idx>>
              ELSE /\ gets' = gets + 1
                   /\ non200' = IF status # 200 THEN non200 + 1 ELSE non200
                   /\ IF out.kind = "UnboundLocalError"
                      THEN /\ logged' = "Failed to download a photo."
                           /\ pc' = "crashed"
                           /\ UNCHANGED <<written, log_entries, idx>>
                      ELSE IF out.kind = "ValueError"
                      THEN /\ logged' = "ValueError"
                           /\ pc' = "save"
                           /\ UNCHANGED <<written, log_entries, idx>>
                      ELSE /\ written' = written \cup {out.output_file}
                           /\ log_entries' =
                                 AppendEntry(log_entries,
                                             photo_guid \o <<":">> \o source_filename.value,
                                             args)
                           /\ idx' = IF last THEN idx ELSE idx + 1
                           /\ pc' = IF last THEN "save" ELSE "loop"
                           /\ UNCHANGED logged
    /\ UNCHANGED <<args, fixedK, file, loaded, ignore_list, data, photo_guids, saved,
                   tokenVars, filterVars, streamVars>>

\* with open(log_file, 'w') as f: f.write('\n'.join(log_entries))
MainSave ==
    /\ pc = "save"
    /\ file' = JoinLines(log_entries)
    /\ saved' = TRUE
    /\ pc' = "done"
    /\ UNCHANGED <<args, fixedK, log_entries, loaded, ignore_list, data, photo_guids,
                   idx, gets, non200, written, logged, tokenVars, filterVars, streamVars>>

\* The process ends (normally, by sys.exit() or by an uncaught exception);
\* only the log file outlives it.
MainExit ==
    /\ pc \in {"done", "exited", "crashed"}
    /\ pc' = "idle"
    /\ args' = NoArgs
    /\ Fresh
    /\ UNCHANGED <<fixedK, file, tokenVars, filterVars, streamVars>>

----------------------------------------------------------------------------
(* Specifications                                                          *)

TokenIdle  == url_token = <<>> /\ tk_done = TRUE /\ tk_result = [kind |-> "none", value |-> 0]
FilterIdle == photos = <<>> /\ asset_urls = <<>> /\ fb_done = TRUE /\ fb_result = <<>>
StreamIdle == stack = <<>> /\ gs_state = "idle" /\ gs_result = Pending
MainIdle ==
    /\ pc = "off" /\ args = NoArgs /\ fixedK = 0 /\ file = <<>>
    /\ log_entries = <<>> /\ loaded = <<>> /\ ignore_list = <<>> /\ data = <<>>
    /\ photo_guids = <<>> /\ idx = 0 /\ gets = 0 /\ non200 = 0 /\ written = {}
    /\ saved = FALSE /\ logged = "none"

\* get_partition on every token of the bounded alphabet.
InitToken ==
    /\ url_token \in Tokens /\ tk_done = FALSE /\ tk_result = [kind |-> "none", value |-> 0]
    /\ FilterIdle /\ StreamIdle /\ MainIdle
SpecToken == InitToken /\ [][Decode]_vars

\* filter_best_assets on every bounded photo list and asset map.
InitFilter ==
    /\ photos \in PhotoLists /\ asset_urls \in AssetMaps /\ fb_done = FALSE /\ fb_result = <<>>
    /\ TokenIdle /\ StreamIdle /\ MainIdle
SpecFilter == InitFilter /\ [][Filter]_vars

\* One outermost get_stream call against any server.
InitStream ==
    /\ stack = <<Frame("p00-sharedstreams.icloud.com")>>
    /\ gs_state = "running" /\ gs_result = Pending
    /\ TokenIdle /\ FilterIdle /\ MainIdle
NextStream == StreamFail \/ StreamRedirect \/ StreamOk \/ StreamAssetFail \/ StreamRaise
SpecStream == InitStream /\ [][NextStream]_vars

\* Runs of the main program, one after another, over the same destination
\* directory, which holds no log file at first.
InitMain ==
    /\ pc = "idle" /\ args = NoArgs /\ file = <<>>
    /\ log_entries = <<>> /\ loaded = <<>> /\ ignore_list = <<>> /\ data = <<>>
    /\ photo_guids = <<>> /\ idx = 0 /\ gets = 0 /\ non200 = 0 /\ written = {}
    /\ saved = FALSE /\ logged = "none"
    /\ TokenIdle /\ FilterIdle /\ StreamIdle
Init == InitMain /\ fixedK = 0
Next == \/ MainStreamError \/ MainStreamCrash \/ MainLoad
        \/ MainSelect \/ MainDownload \/ MainSave \/ MainExit
Spec == Init /\ [][Next]_vars

\* The same, every run with the same --ignore K, K >= 1.
InitSameK == InitMain /\ fixedK \in 1..MaxIgnore
SpecSameK == InitSameK /\ [][Next]_vars

----------------------------------------------------------------------------
(* Properties                                                              *)

\* The entry starts with identifier g followed by a colon.
HasId(entry, g) ==
    /\ Len(entry) > Len(g)
    /\ SubSeq(entry, 1, Len(g)) = g
    /\ entry[Len(g) + 1] = ":"

\* Identifiers stored in the last k entries.
WindowIds(entries, k) ==
    {g \in StreamKeys : \E i \in DOMAIN entries : i > Len(entries) - k /\ HasId(entries[i], g)}

Selected == pc \in {"loop", "save", "done", "crashed"}

\* C1: a non-200 asset GET is skipped: the run does not die, and when it is
\* over every selected photo has been requested and the log has been saved.
C1_NonOkSkipped ==
    non200 > 0 =>
        /\ pc # "crashed"
        /\ (pc = "done" => saved /\ gets = Len(photo_guids))

\* C2: a run without errors downloads every photo of the stream when neither
\* --single nor --count is given, exactly one photo into one file with
\* --single, and exactly N photos with --count N.
C2_CountByMode ==
    (pc = "done" /\ logged = "none") =>
        /\ (~args.single /\ ~args.count_given) => gets = Cardinality(DOMAIN data)
        /\ args.single => (gets = 1 /\ Cardinality(written) = 1)
        /\ (~args.single /\ args.count_given) => gets = args.count

\* C3: get_stream follows at most one redirect hop: never more than two
\* nested calls, the first and the one against the new host.
C3_SingleHop == Len(stack) <= 2

\* The maximum length the command line configures for the log.
MaxConfigured(a) == IF a.ignore # 0 THEN a.ignore ELSE a.log_downloads

ChosenEntries ==
    [i \in DOMAIN photo_guids |->
        photo_guids[i] \o <<":">>
            \o get_source_filename(get_download_url(data[photo_guids[i]])).value]

IsSuffix(s, t) == Len(s) <= Len(t) /\ s = SubSeq(t, Len(t) - Len(s) + 1, Len(t))

\* C4: after a run that downloads, the persisted log is the tail of the loaded
\* log followed by the chosen entries in selection order, and it is no longer
\* than the configured maximum.
C4_LogBounded ==
    (pc = "done" /\ logged = "none" /\ photo_guids # <<>> /\ MaxConfigured(args) > 0) =>
        /\ IsSuffix(SplitLines(file), loaded \o ChosenEntries)
        /\ Len(SplitLines(file)) <= MaxConfigured(args)

\* C5: every get_stream call posts at most 3 webstream requests, raises only
\* after exactly 3 of them, and never returns None.
C5_BoundedRetry ==
    /\ \A i \in DOMAIN stack :
          /\ stack[i].reqs <= 3
          /\ stack[i].st = "raising" => stack[i].reqs = 3
    /\ gs_result.kind # "None"
    /\ gs_state = "raised" => gs_result.reqs = 3

\* The outermost call has raised to its caller after its three requests.
C5_Witness == gs_state = "raised" /\ gs_result.reqs = 3 /\ gs_result.kind = "ValueError"

FirstLargest(derivs) ==
    derivs[CHOOSE i \in DOMAIN derivs :
              /\ \A j \in DOMAIN derivs : Dim(derivs[j]) <= Dim(derivs[i])
              /\ \A j \in 1..(i - 1) : Dim(derivs[j]) < Dim(derivs[i])]

\* C7: for each photo with derivatives the result holds the asset-URL entry of
\* its first largest derivative, unless the map lacks that checksum, and then
\* only; and the result holds nothing else.
C7_BestAsset ==
    fb_done =>
        /\ \A i \in DOMAIN photos :
              photos[i].derivatives # <<>> =>
                  LET c == FirstLargest(photos[i].derivatives).checksum
                  IN  /\ c \notin DOMAIN fb_result <=> c \notin DOMAIN asset_urls
                      /\ c \in DOMAIN fb_result => fb_result[c] = asset_urls[c]
        /\ \A c \in DOMAIN fb_result :
              \E i \in DOMAIN photos :
                  /\ photos[i].derivatives # <<>>
                  /\ c = FirstLargest(photos[i].derivatives).checksum

\* The value of a symbol of the 62-symbol alphabet.
Value62(c) == CHOOSE n \in 0..61 : BASE_62_CHAR_SET[n + 1] = c

\* C8: a token starting with A decodes to the value of its second symbol,
\* any other to the two-symbol value of its symbols 2-3, and a token too short
\* for that does not decode.
C8_Partition ==
    tk_done =>
        IF Len(url_token) >= 1 /\ url_token[1] = "A"
        THEN IF Len(url_token) >= 2
             THEN tk_result = [kind |-> "ok", value |-> Value62(url_token[2])]
             ELSE tk_result.kind # "ok"
        ELSE IF Len(url_token) >= 3
             THEN tk_result = [kind |-> "ok",
                               value |-> Value62(url_token[2]) * 62 + Value62(url_token[3])]
             ELSE tk_result.kind # "ok"

\* C9: with --ignore K the chosen photos are pairwise distinct, belong to the
\* stream, and are not stored in the last K entries of the log as loaded.
C9_ChosenFresh ==
    (Selected /\ args.ignore >= 1) =>
        /\ \A i, j \in DOMAIN photo_guids : i # j => photo_guids[i] # photo_guids[j]
        /\ Range(photo_guids) \subseteq DOMAIN data
        /\ Range(photo_guids) \cap WindowIds(loaded, args.ignore) = {}

\* Two photos were chosen from a stream that also holds a photo of the window.
C9_Witness ==
    /\ pc = "loop"
    /\ args.ignore >= 1
    /\ Len(photo_guids) = 2
    /\ WindowIds(loaded, args.ignore) \cap DOMAIN data # {}

\* C10: when every run uses the same --ignore K, the last K entries of the
\* log file never hold the same identifier twice.
C10_WindowNoRepeat ==
    LET lines == SplitLines(file)
    IN  \A i, j \in DOMAIN lines :
            (i < j /\ i > Len(lines) - fixedK) =>
                ~ \E g \in StreamKeys : HasId(lines[i], g) /\ HasId(lines[j], g)

\* A run that loaded a full window of two entries downloaded and saved.
C10_Witness ==
    /\ fixedK = 2
    /\ pc = "done"
    /\ Len(loaded) = 2
    /\ gets >= 1
    /\ saved
    /\ Len(SplitLines(file)) = 2
    /\ SplitLines(file) # loaded

====
